---------------------------- MODULE Spec2Model ----------------------------
(***************************************************************************)
(* Bulls and Cows console game (pokus_3.py and pokus_3.1.py).              *)
(*                                                                         *)
(* The secret generator, the two input validators, the score evaluator    *)
(* and the read-validate-score loop of play_game, each translated from    *)
(* its Python source.  Python lists are sequences (index 0 of the source  *)
(* is index 1 here); a str is a sequence of one-character strings.        *)
(***************************************************************************)
EXTENDS Integers, Sequences, FiniteSets, TLC

VARIABLES
    pc,          \* position of the running function / loop
    variant,     \* which source file runs: "pokus_3" or "pokus_3.1"
    count,       \* the configured DIGIT_COUNT the functions read
    sample,      \* what random.sample(range(0, 10), DIGIT_COUNT) returned
    secret,      \* play_game's secret / the list generate_number returns
    attempts,    \* play_game's attempts counter
    scored,      \* history: number of evaluate_guess calls made by the loop
    user_input,  \* the raw line read by input()
    is_valid,    \* validation flag of the last submission
    messages,    \* the error list of is_valid_input (pokus_3.1.py)
    guess,       \* the parsed guess list
    bulls,       \* last score
    cows

vars == <<pc, variant, count, sample, secret, attempts, scored, user_input,
          is_valid, messages, guess, bulls, cows>>

(***************************************************************************)
(* Program constants and model bounds.                                     *)
(***************************************************************************)
DIGIT_COUNT == 4

\* GenSpec configures DIGIT_COUNT over 1..MaxDigitCount.
MaxDigitCount == 4

\* EvalSpec feeds evaluate_guess lists over the digits 1..MaxEvalDigit ...
MaxEvalDigit == 4

\* ... of lengths DIGIT_COUNT - MaxShort .. DIGIT_COUNT.
MaxShort == 1

\* ValSpec feeds is_valid_input strings of length 0..MaxInputLen.
MaxInputLen == 5

\* Spec (the game) stops reading input after MaxAttempts scored guesses.
MaxAttempts == 2

\* range(0, 10): the population random.sample draws from.
Digits == 0 .. 9

Min(a, b) == IF a <= b THEN a ELSE b

Range(s) == { s[i] : i \in 1 .. Len(s) }

\* All sequences over S of length n.
SeqsOfLen(S, n) == [1 .. n -> S]

\* All sequences over S of a length in lo..hi.
SeqsBetween(S, lo, hi) == UNION { SeqsOfLen(S, n) : n \in lo .. hi }

Distinct(s) == \A i, j \in 1 .. Len(s) : i # j => s[i] # s[j]

(***************************************************************************)
(* Characters.  str.isdigit() accepts every character whose Unicode        *)
(* Numeric_Type is Digit or Decimal, which includes the superscript        *)
(* digits; int() parses only the decimal ones.  "sup2" stands for the      *)
(* one character U+00B2 (superscript two), "a" for a letter.               *)
(***************************************************************************)
DecimalChars == <<"0", "1", "2", "3", "4", "5", "6", "7", "8", "9">>

DecimalSet == Range(DecimalChars)

IsdigitSet == DecimalSet \cup {"sup2"}

\* str(d) for a digit d in 0..9.
str(d) == DecimalChars[d + 1]

\* ''.join(map(str, digits))
join_str(digits) == [i \in 1 .. Len(digits) |-> str(digits[i])]

\* int(c) for a one-character string: the digit value, or "ValueError".
int(c) ==
    IF c \in DecimalSet
    THEN CHOOSE d \in Digits : DecimalChars[d + 1] = c
    ELSE "ValueError"

\* s.isdigit(): at least one character and every character a digit.
isdigit(s) == Len(s) > 0 /\ \A i \in 1 .. Len(s) : s[i] \in IsdigitSet

(***************************************************************************)
(* generate_number.  `digits` is the list random.sample returned and n the *)
(* value of DIGIT_COUNT.  The loop "for i in range(1, n)" swaps position 0 *)
(* with the first later nonzero digit and breaks; with no such position    *)
(* the list is returned as drawn.                                          *)
(***************************************************************************)
Swap(s, i, j) == [s EXCEPT ![i] = s[j], ![j] = s[i]]

\* The list as drawn, never repaired.
generate_number_norepair(digits, n) == digits

generate_number(digits, n) ==
    IF digits[1] = 0
    THEN LET later == { i \in 2 .. n : digits[i] # 0 }
         IN  IF later = {}
             THEN digits
             ELSE Swap(digits, 1, CHOOSE i \in later : \A k \in later : i <= k)
    ELSE digits

\* Every list random.sample(range(0, 10), n) can return.
Samples(n) == { s \in SeqsOfLen(Digits, n) : Distinct(s) }

(***************************************************************************)
(* is_valid_input of pokus_3.1.py: four independent "if" statements, each  *)
(* appending one message; the flag is len(errors) == 0.  n is DIGIT_COUNT. *)
(***************************************************************************)
MsgDigits == "Input must contain only digits."

MsgLength == "Input must be {DIGIT_COUNT} digits long."

MsgZero == "Number cannot start with zero."

MsgUnique == "Digits must be unique."

\* The leading-zero test looks at the last character.
is_valid_input_lastzero(s, n) ==
    LET e1 == IF ~isdigit(s) THEN <<MsgDigits>> ELSE <<>>
        e2 == IF Len(s) # n THEN <<MsgLength>> ELSE <<>>
        e3 == IF Len(s) > 0 /\ s[Len(s)] = "0" THEN <<MsgZero>> ELSE <<>>
        e4 == IF Cardinality(Range(s)) # Len(s) THEN <<MsgUnique>> ELSE <<>>
        errors == e1 \o e2 \o e3 \o e4
    IN  [ok |-> Len(errors) = 0, errors |-> errors]

is_valid_input(s, n) ==
    LET e1 == IF ~isdigit(s) THEN <<MsgDigits>> ELSE <<>>
        e2 == IF Len(s) # n THEN <<MsgLength>> ELSE <<>>
        e3 == IF Len(s) > 0 /\ s[1] = "0" THEN <<MsgZero>> ELSE <<>>
        e4 == IF Cardinality(Range(s)) # Len(s) THEN <<MsgUnique>> ELSE <<>>
        errors == e1 \o e2 \o e3 \o e4
    IN  [ok |-> Len(errors) = 0, errors |-> errors]

\* is_valid_input of pokus_3.py: one short-circuited conjunction.
is_valid_input_bool(s, n) ==
    /\ isdigit(s)
    /\ Len(s) = n
    /\ Cardinality(Range(s)) = n
    /\ s[1] # "0"

(***************************************************************************)
(* evaluate_guess.  zip(secret, guess) stops at the shorter list.  The     *)
(* position pass counts bulls and collects the unmatched digits in order;  *)
(* the cow pass walks unmatched_guess and, for a digit present in          *)
(* unmatched_secret, counts a cow and removes its first occurrence.  The   *)
(* result records the returned pair, the two argument lists as the call    *)
(* leaves them, and the exception raised ("none": the function has no      *)
(* raise statement).                                                       *)
(***************************************************************************)
\* list.remove(x): drop the first occurrence of x.
RECURSIVE remove(_, _)
remove(s, x) ==
    IF s = <<>> THEN <<>>
    ELSE IF Head(s) = x THEN Tail(s)
    ELSE <<Head(s)>> \o remove(Tail(s), x)

\* A bull is counted when the guess digit occurs anywhere in the secret.
RECURSIVE position_pass_anywhere(_, _, _, _)
position_pass_anywhere(s, g, i, acc) ==
    IF i > Min(Len(s), Len(g)) THEN acc
    ELSE position_pass_anywhere(s, g, i + 1,
            IF g[i] \in Range(s)
            THEN [acc EXCEPT !.bulls = @ + 1]
            ELSE [acc EXCEPT !.unmatched_secret = Append(@, s[i]),
                             !.unmatched_guess = Append(@, g[i])])

RECURSIVE position_pass(_, _, _, _)
position_pass(s, g, i, acc) ==
    IF i > Min(Len(s), Len(g)) THEN acc
    ELSE position_pass(s, g, i + 1,
            IF s[i] = g[i]
            THEN [acc EXCEPT !.bulls = @ + 1]
            ELSE [acc EXCEPT !.unmatched_secret = Append(@, s[i]),
                             !.unmatched_guess = Append(@, g[i])])

\* The cow pass without the remove: a repeated guess digit is counted twice.
RECURSIVE cow_pass_noremove(_, _, _)
cow_pass_noremove(unmatched_guess, j, acc) ==
    IF j > Len(unmatched_guess) THEN acc
    ELSE cow_pass_noremove(unmatched_guess, j + 1,
            IF unmatched_guess[j] \in Range(acc.unmatched_secret)
            THEN [acc EXCEPT !.cows = @ + 1]
            ELSE acc)

RECURSIVE cow_pass(_, _, _)
cow_pass(unmatched_guess, j, acc) ==
    IF j > Len(unmatched_guess) THEN acc
    ELSE cow_pass(unmatched_guess, j + 1,
            IF unmatched_guess[j] \in Range(acc.unmatched_secret)
            THEN [cows |-> acc.cows + 1,
                  unmatched_secret |-> remove(acc.unmatched_secret, unmatched_guess[j])]
            ELSE acc)

\* zip(..., strict=True) behaviour: unequal lengths raise.
evaluate_guess_strict(s, g) ==
    LET p == position_pass(s, g, 1,
                [bulls |-> 0, unmatched_secret |-> <<>>, unmatched_guess |-> <<>>])
        c == cow_pass(p.unmatched_guess, 1,
                [cows |-> 0, unmatched_secret |-> p.unmatched_secret])
    IN  IF Len(s) # Len(g)
        THEN [bulls |-> 0, cows |-> 0, secret |-> s, guess |-> g,
              raised |-> "LengthMismatchError"]
        ELSE [bulls |-> p.bulls, cows |-> c.cows, secret |-> s, guess |-> g,
              raised |-> "none"]

\* The working list is the secret itself, so remove() shortens the secret.
evaluate_guess_aliased(s, g) ==
    LET p == position_pass(s, g, 1,
                [bulls |-> 0, unmatched_secret |-> <<>>, unmatched_guess |-> <<>>])
        c == cow_pass(p.unmatched_guess, 1,
                [cows |-> 0, unmatched_secret |-> s])
    IN  [bulls |-> p.bulls, cows |-> c.cows, secret |-> c.unmatched_secret,
         guess |-> g, raised |-> "none"]

evaluate_guess(s, g) ==
    LET p == position_pass(s, g, 1,
                [bulls |-> 0, unmatched_secret |-> <<>>, unmatched_guess |-> <<>>])
        c == cow_pass(p.unmatched_guess, 1,
                [cows |-> 0, unmatched_secret |-> p.unmatched_secret])
    IN  [bulls |-> p.bulls, cows |-> c.cows, secret |-> s, guess |-> g,
         raised |-> "none"]

(***************************************************************************)
(* One iteration of play_game's "while True" loop after input() returned   *)
(* the line inp: validate, parse, count the attempt, score, and either go  *)
(* round again or break.  st holds the function's variables before the     *)
(* iteration, v selects the file (the two differ in the validator only)    *)
(* and n is DIGIT_COUNT.  int() raising ValueError inside the list         *)
(* comprehension is not caught by play_game and ends the process.          *)
(***************************************************************************)
\* [int(d) for d in user_input] raises when some character has no int().
parse_raises(inp) == \E i \in 1 .. Len(inp) : inp[i] \notin DecimalSet

parse_guess(inp) == [i \in 1 .. Len(inp) |-> int(inp[i])]

\* The attempt is counted before validation, so invalid lines count too.
loop_body_countall(st, inp, v, n) ==
    LET valid == IF v = "pokus_3.1" THEN is_valid_input(inp, n).ok
                 ELSE is_valid_input_bool(inp, n)
        msgs == IF v = "pokus_3.1" THEN is_valid_input(inp, n).errors
                ELSE st.messages
        read == [st EXCEPT !.user_input = inp, !.is_valid = valid,
                           !.messages = msgs, !.attempts = @ + 1]
    IN  IF ~valid THEN [read EXCEPT !.pc = "AwaitingInput"]
        ELSE IF parse_raises(inp) THEN [read EXCEPT !.pc = "ValueError"]
        ELSE LET r == evaluate_guess(st.secret, parse_guess(inp))
             IN  IF r.raised # "none" THEN [read EXCEPT !.pc = r.raised]
                 ELSE [read EXCEPT !.pc = IF r.bulls = n THEN "Won"
                                          ELSE "AwaitingInput",
                                   !.secret = r.secret,
                                   !.guess = r.guess,
                                   !.scored = @ + 1,
                                   !.bulls = r.bulls,
                                   !.cows = r.cows]

loop_body(st, inp, v, n) ==
    LET valid == IF v = "pokus_3.1" THEN is_valid_input(inp, n).ok
                 ELSE is_valid_input_bool(inp, n)
        msgs == IF v = "pokus_3.1" THEN is_valid_input(inp, n).errors
                ELSE st.messages
        read == [st EXCEPT !.user_input = inp, !.is_valid = valid,
                           !.messages = msgs]
    IN  IF ~valid THEN [read EXCEPT !.pc = "AwaitingInput"]
        ELSE IF parse_raises(inp) THEN [read EXCEPT !.pc = "ValueError"]
        ELSE LET r == evaluate_guess(st.secret, parse_guess(inp))
             IN  IF r.raised # "none" THEN [read EXCEPT !.pc = r.raised]
                 ELSE [read EXCEPT !.pc = IF r.bulls = n THEN "Won"
                                          ELSE "AwaitingInput",
                                   !.secret = r.secret,
                                   !.guess = r.guess,
                                   !.attempts = @ + 1,
                                   !.scored = @ + 1,
                                   !.bulls = r.bulls,
                                   !.cows = r.cows]

(***************************************************************************)
(* GenSpec: generate_number under every configured DIGIT_COUNT in          *)
(* 1..MaxDigitCount and every random draw.                                 *)
(***************************************************************************)
Idle ==
    /\ variant = "pokus_3.1"
    /\ attempts = 0
    /\ scored = 0
    /\ user_input = <<>>
    /\ is_valid = FALSE
    /\ messages = <<>>
    /\ guess = <<>>
    /\ bulls = 0
    /\ cows = 0

GenInit ==
    /\ pc = "gen_call"
    /\ count \in 1 .. MaxDigitCount
    /\ sample \in Samples(count)
    /\ secret = <<>>
    /\ Idle

Generate ==
    /\ pc = "gen_call"
    /\ secret' = generate_number(sample, count)
    /\ pc' = "gen_done"
    /\ UNCHANGED <<variant, count, sample, attempts, scored, user_input,
                   is_valid, messages, guess, bulls, cows>>

GenNext == Generate

GenSpec == GenInit /\ [][GenNext]_vars

IsSecretNumber(s, n) ==
    /\ Len(s) = n
    /\ \A i \in 1 .. n : s[i] \in Digits
    /\ Distinct(s)
    /\ s[1] # 0

\* C1: with DIGIT_COUNT = 4 every list generate_number returns has exactly
\* 4 digits, each in 0..9, pairwise distinct, and its first digit is not 0.
C1_GeneratedIsSecret ==
    (pc = "gen_done" /\ count = DIGIT_COUNT) => IsSecretNumber(secret, DIGIT_COUNT)

\* The draw started with 0 and the repair step ran.
C1_Witness ==
    /\ pc = "gen_done"
    /\ count = DIGIT_COUNT
    /\ sample[1] = 0
    /\ secret[1] # 0

\* C6: for every configured length N in 1..10 and every draw the result has
\* N pairwise-distinct digits, a nonzero first digit, and the digits drawn.
C6_RepairAlwaysSucceeds ==
    pc = "gen_done" =>
        /\ IsSecretNumber(secret, count)
        /\ Range(secret) = Range(sample)

(***************************************************************************)
(* ValSpec: both is_valid_input variants on every string of length         *)
(* 0..MaxInputLen over ValChars, with DIGIT_COUNT = 4.                     *)
(***************************************************************************)
ValChars == {"0", "1", "2", "3", "a", "sup2"}

ValInit ==
    /\ pc = "val_call"
    /\ variant \in {"pokus_3", "pokus_3.1"}
    /\ count = DIGIT_COUNT
    /\ user_input \in SeqsBetween(ValChars, 0, MaxInputLen)
    /\ sample = <<>>
    /\ secret = <<>>
    /\ attempts = 0
    /\ scored = 0
    /\ is_valid = FALSE
    /\ messages = <<>>
    /\ guess = <<>>
    /\ bulls = 0
    /\ cows = 0

\* pokus_3.1.py: is_valid, messages = is_valid_input(user_input)
ValidateMessages ==
    /\ pc = "val_call"
    /\ variant = "pokus_3.1"
    /\ LET r == is_valid_input(user_input, count)
       IN  /\ is_valid' = r.ok
           /\ messages' = r.errors
    /\ pc' = "val_done"
    /\ UNCHANGED <<variant, count, sample, secret, attempts, scored,
                   user_input, guess, bulls, cows>>

\* pokus_3.py: is_valid_input(user_input) returns the flag alone
ValidateBool ==
    /\ pc = "val_call"
    /\ variant = "pokus_3"
    /\ is_valid' = is_valid_input_bool(user_input, count)
    /\ pc' = "val_done"
    /\ UNCHANGED <<variant, count, sample, secret, attempts, scored,
                   user_input, messages, guess, bulls, cows>>

ValNext == ValidateMessages \/ ValidateBool

ValSpec == ValInit /\ [][ValNext]_vars

\* The four checks as the specification words them.  An empty string is
\* taken to fail (a), as the source's isdigit() test has it; it has no
\* first character, so it passes (c).
CheckDecimal(s) == Len(s) > 0 /\ \A i \in 1 .. Len(s) : s[i] \in DecimalSet

CheckLength(s) == Len(s) = DIGIT_COUNT

CheckFirstNotZero(s) == Len(s) = 0 \/ s[1] # "0"

CheckDistinct(s) == Distinct(s)

ExpectedMessages(s) ==
    (IF CheckDecimal(s) THEN <<>> ELSE <<MsgDigits>>)
    \o (IF CheckLength(s) THEN <<>> ELSE <<MsgLength>>)
    \o (IF CheckFirstNotZero(s) THEN <<>> ELSE <<MsgZero>>)
    \o (IF CheckDistinct(s) THEN <<>> ELSE <<MsgUnique>>)

\* C2: for every raw string is_valid_input (pokus_3.1.py) returns exactly
\* one message per failed check, in the order decimal digits, length,
\* leading zero, distinctness, and the flag is true iff all four checks
\* hold iff the list is empty.
C2_OneMessagePerFailedCheck ==
    (pc = "val_done" /\ variant = "pokus_3.1") =>
        /\ messages = ExpectedMessages(user_input)
        /\ is_valid = (/\ CheckDecimal(user_input)
                       /\ CheckLength(user_input)
                       /\ CheckFirstNotZero(user_input)
                       /\ CheckDistinct(user_input))
        /\ is_valid = (messages = <<>>)

(***************************************************************************)
(* EvalSpec: evaluate_guess on every pair of lists over 1..MaxEvalDigit    *)
(* with lengths in DIGIT_COUNT - MaxShort .. DIGIT_COUNT, equal or not.    *)
(***************************************************************************)
EvalLists == SeqsBetween(1 .. MaxEvalDigit, DIGIT_COUNT - MaxShort, DIGIT_COUNT)

EvalInit ==
    /\ pc = "eval_call"
    /\ variant = "pokus_3.1"
    /\ count = DIGIT_COUNT
    /\ secret \in EvalLists
    /\ guess \in EvalLists
    /\ sample = <<>>
    /\ attempts = 0
    /\ scored = 0
    /\ user_input = <<>>
    /\ is_valid = FALSE
    /\ messages = <<>>
    /\ bulls = 0
    /\ cows = 0

\* bulls, cows = evaluate_guess(secret, guess)
Evaluate ==
    /\ pc = "eval_call"
    /\ LET r == evaluate_guess(secret, guess)
       IN  /\ pc' = IF r.raised = "none" THEN "eval_done" ELSE r.raised
           /\ bulls' = r.bulls
           /\ cows' = r.cows
           /\ secret' = r.secret
           /\ guess' = r.guess
    /\ UNCHANGED <<variant, count, sample, attempts, scored, user_input,
                   is_valid, messages>>

EvalNext == Evaluate

EvalSpec == EvalInit /\ [][EvalNext]_vars

\* Number of positions 1..n where the two lists agree.
Agreeing(s, g, n) == { i \in 1 .. n : s[i] = g[i] }

\* Occurrences of digit d of list s at the positions in P.
Occurrences(s, P, d) == Cardinality({ i \in P : s[i] = d })

RECURSIVE SumOver(_, _, _, _, _)
SumOver(D, s, g, Ps, Pg) ==
    IF D = {} THEN 0
    ELSE LET d == CHOOSE x \in D : TRUE
         IN  Min(Occurrences(s, Ps, d), Occurrences(g, Pg, d))
             + SumOver(D \ {d}, s, g, Ps, Pg)

\* Size of the multiset intersection of the digits of s and of g at the
\* non-agreeing positions among 1..n.
UnmatchedCommon(s, g, n) ==
    LET P == (1 .. n) \ Agreeing(s, g, n)
    IN  SumOver(Range(s) \cup Range(g), s, g, P, P)

\* C3: for lists of equal length N, bulls = N iff the guess equals the
\* secret element-wise, and then the result is (N, 0).
C3_AllBullsIffEqual ==
    (pc = "eval_done" /\ Len(secret) = Len(guess)) =>
        /\ (bulls = Len(secret)) <=> (guess = secret)
        /\ (guess = secret) => (bulls = Len(secret) /\ cows = 0)

C3_Witness ==
    /\ pc = "eval_done"
    /\ guess = secret
    /\ Len(secret) = DIGIT_COUNT
    /\ bulls = DIGIT_COUNT
    /\ cows = 0

\* C4: for a unique-digit secret and a guess of the same length (repeats
\* allowed) bulls is the number of agreeing positions and cows the size of
\* the multiset intersection of the digits at the non-agreeing positions.
C4_BullsAndCows ==
    (pc = "eval_done" /\ Len(secret) = Len(guess) /\ Distinct(secret)) =>
        /\ bulls = Cardinality(Agreeing(secret, guess, Len(secret)))
        /\ cows = UnmatchedCommon(secret, guess, Len(secret))
        /\ bulls + cows <= Len(secret)

\* secret 1234 against guess 2211: one bull (the second 2) and one cow; the
\* repeated 1 is credited once, for the single 1 of the secret.
C4_Witness ==
    /\ pc = "eval_done"
    /\ secret = <<1, 2, 3, 4>>
    /\ guess = <<2, 2, 1, 1>>
    /\ bulls = 1
    /\ cows = 1

GameDigits == {0, 1, 2, 3}

GameSamples == { s \in SeqsOfLen(GameDigits, DIGIT_COUNT) : Distinct(s) }

GameChars == { str(d) : d \in GameDigits }

ExtraInputs ==
    { <<>>,
      <<"1", "2", "3">>,
      <<"1", "1", "2", "3">>,
      <<"1", "2", "a", "3">>,
      <<"0", "0", "a">>,
      <<"1", "2", "3", "0", "4">>,
      <<"sup2", "1">>,
      <<"1", "sup2", "3", "0">> }

GameInputs ==
    { s \in SeqsOfLen(GameChars, DIGIT_COUNT) : Distinct(s) } \cup ExtraInputs

Init ==
    /\ pc = "start"
    /\ variant \in {"pokus_3", "pokus_3.1"}
    /\ count = DIGIT_COUNT
    /\ sample = <<>>
    /\ secret = <<>>
    /\ attempts = 0
    /\ scored = 0
    /\ user_input = <<>>
    /\ is_valid = FALSE
    /\ messages = <<>>
    /\ guess = <<>>
    /\ bulls = 0
    /\ cows = 0

\* secret = generate_number(); attempts = 0
StartGame ==
    /\ pc = "start"
    /\ \E s \in GameSamples :
          /\ sample' = s
          /\ secret' = generate_number(s, count)
    /\ attempts' = 0
    /\ pc' = "AwaitingInput"
    /\ UNCHANGED <<variant, count, scored, user_input, is_valid, messages,
                   guess, bulls, cows>>

LoopState ==
    [pc |-> pc, secret |-> secret, attempts |-> attempts, scored |-> scored,
     user_input |-> user_input, is_valid |-> is_valid, messages |-> messages,
     guess |-> guess, bulls |-> bulls, cows |-> cows]

\* input() returns a line and the loop body runs on it
Submit ==
    /\ pc = "AwaitingInput"
    /\ attempts < MaxAttempts
    /\ \E inp \in GameInputs :
          \E r \in {loop_body(LoopState, inp, variant, count)} :
              /\ pc' = r.pc
              /\ secret' = r.secret
              /\ attempts' = r.attempts
              /\ scored' = r.scored
              /\ user_input' = r.user_input
              /\ is_valid' = r.is_valid
              /\ messages' = r.messages
              /\ guess' = r.guess
              /\ bulls' = r.bulls
              /\ cows' = r.cows
    /\ UNCHANGED <<variant, count, sample>>

\* input() raises KeyboardInterrupt or EOFError: farewell and exit()
Abort ==
    /\ pc = "AwaitingInput"
    /\ pc' = "Aborted"
    /\ UNCHANGED <<variant, count, sample, secret, attempts, scored,
                   user_input, is_valid, messages, guess, bulls, cows>>

Next == StartGame \/ Submit \/ Abort

Spec == Init /\ [][Next]_vars

\* C7: the loop reaches Won exactly on a submission that is valid and
\* scores bulls = DIGIT_COUNT (the guess equals the secret); every other
\* submission returns the loop to AwaitingInput; nothing is read or scored
\* after Won.
C7_WonExactlyOnWinningGuess ==
    [][ /\ (pc = "AwaitingInput" /\ pc' # "Aborted") =>
              /\ pc' \in {"AwaitingInput", "Won"}
              /\ (pc' = "Won") <=>
                     (is_valid' /\ scored' = scored + 1 /\ bulls' = DIGIT_COUNT)
              /\ (pc' = "Won") => (guess' = secret)
        /\ (pc = "Won") => UNCHANGED vars ]_vars

\* C8: attempts starts at 0 and always equals the number of submissions
\* that passed validation and were scored; a scored guess adds exactly 1,
\* an invalid submission adds nothing, and at Won the total is at least 1.
C8_AttemptsCountScoredGuesses ==
    /\ [](pc = "start" => attempts = 0)
    /\ [](attempts = scored)
    /\ [](pc = "Won" => attempts >= 1)
    /\ [][ (pc = "AwaitingInput" /\ pc' # "Aborted") =>
              /\ ~is_valid' => attempts' = attempts
              /\ (is_valid' /\ pc' \in {"AwaitingInput", "Won"}) =>
                     (attempts' = attempts + 1 /\ scored' = scored + 1) ]_vars

\* One guess was scored and then an invalid line was read.
C8_Witness ==
    /\ pc = "AwaitingInput"
    /\ attempts = 1
    /\ ~is_valid
    /\ user_input # <<>>

\* C9: once generate_number has returned, no step of play_game changes the
\* secret, and a scoring step leaves the secret and the parsed guess as
\* they were passed to evaluate_guess.
C9_SecretFixed ==
    /\ [](pc # "start" => secret = generate_number(sample, DIGIT_COUNT))
    /\ [][ pc # "start" => secret' = secret ]_vars
    /\ [][ scored' = scored + 1 => guess' = parse_guess(user_input') ]_vars

\* A guess was scored with every digit a cow: the cow pass emptied its
\* working list and the secret still has its DIGIT_COUNT digits.
C9_Witness ==
    /\ pc = "AwaitingInput"
    /\ scored = 1
    /\ cows = DIGIT_COUNT
    /\ Len(secret) = DIGIT_COUNT

(***************************************************************************)
(* The generator against the validators and the loop (GenSpec).            *)
(***************************************************************************)
\* play_game's variables at the input() call with a scored guesses so far.
AwaitingState(sec, a) ==
    [pc |-> "AwaitingInput", secret |-> sec, attempts |-> a, scored |-> a,
     user_input |-> <<>>, is_valid |-> FALSE, messages |-> <<>>,
     guess |-> <<>>, bulls |-> 0, cows |-> 0]

\* C10: with DIGIT_COUNT = 4 the decimal string of every generated secret
\* passes both is_valid_input variants, scores (DIGIT_COUNT, 0), and as a
\* submission drives the loop from AwaitingInput to Won.
C10_SecretStringWins ==
    (pc = "gen_done" /\ count = DIGIT_COUNT) =>
        LET inp == join_str(secret)
        IN  /\ is_valid_input(inp, DIGIT_COUNT) = [ok |-> TRUE, errors |-> <<>>]
            /\ is_valid_input_bool(inp, DIGIT_COUNT)
            /\ parse_guess(inp) = secret
            /\ \A v \in {"pokus_3", "pokus_3.1"}, a \in 0 .. MaxAttempts :
                  LET r == loop_body(AwaitingState(secret, a), inp, v, DIGIT_COUNT)
                  IN  /\ r.pc = "Won"
                      /\ r.is_valid
                      /\ r.bulls = DIGIT_COUNT
                      /\ r.cows = 0
                      /\ r.attempts = a + 1

\* A repaired secret that contains the digit 0 after its first position.
C10_Witness ==
    /\ pc = "gen_done"
    /\ count = DIGIT_COUNT
    /\ sample[1] = 0
    /\ secret[DIGIT_COUNT] # 0
    /\ is_valid_input_bool(join_str(secret), DIGIT_COUNT)

=============================================================================
